---- MODULE Spec2Model ----
(***************************************************************************)
(* The event pipeline of the ObsidianTaskManager plugin (main.ts): the     *)
(* host's file-open, changed, delete and rename events, the per-path       *)
(* CLEAN/DIRTY file state, the per-path debouncers and the actions the     *)
(* plugin dispatches to the task store.                                    *)
(***************************************************************************)
EXTENDS Integers, Sequences, FiniteSets, TLC

\* ------------------------------------------------------------------ bounds
Files == {"f1", "f2"}          \* the TFile objects of the vault
Paths == {"A", "B", "C"}       \* the path strings a file can carry
Lines == {0}                   \* 0-based numbers of the lines that hold tasks
CursorLines == {0, 1}          \* lines the editor's cursor can be on
MaxEvents == 4                 \* host inputs of a behaviour: focus changes, events, deletes, renames
MaxPending == 2                \* undelivered 'changed' events
MaxInFlight == 2               \* suspended handleCacheChanged calls
MaxUid == 4                    \* identities the store may hand out

NoFile == "none"               \* null / undefined TFile, no active view
IgnoredPaths == {}             \* settings.ignoredPaths
VaultPaths == Paths \ IgnoredPaths

\* ------------------------------------------------------------ task values
NoTask == [uid |-> -1, complete |-> FALSE, name |-> ""]
Task(u, c, n) == [uid |-> u, complete |-> c, name |-> n]
NoLines == [l \in Lines |-> NoTask]
Slice(p, ls) == [path |-> p, lines |-> ls]

VARIABLES
    \* the host (Obsidian vault, metadata cache, workspace)
    path,            \* file.path of each TFile
    exists,          \* whether the TFile is still in the vault
    text,            \* the task line found at each line of each document
    activeView,      \* file of workspace.getActiveViewOfType(MarkdownView)
    changed,         \* undelivered metadataCache 'changed' events per file
    \* the plugin
    registered,      \* registerEvents() has run
    scanning,        \* callers whose processVault() is suspended at its reads
    vaultLoaded,
    initialized,
    activeFile,      \* this._activeFile
    fileStates,      \* TaskFileManager's status per path
    changeDebouncers,\* this.changeDebouncers: pending action per path
    handlers,        \* handleCacheChanged calls suspended at their read
    opens,           \* file-open handlers suspended at their read
    \* the store
    instanceIndex,
    taskIndex,
    nextId,
    \* history
    events,          \* host inputs so far
    lastEvent,       \* the host event this step handled, and how it ended
    lastDispatch     \* the action this step gave to triggerFileCacheUpdate

VARIABLES
    \* TaskParser's inputs and results
    contents,        \* a document's text, a sequence of characters
    listItems,       \* position.start.line of fileCache.listItems with a task
    taskLines,       \* parseLinesToRecord(contents), by 0-based line number
    fileTasks        \* how parseFileContents(contents, fileCache) ended

parserVars == <<contents, listItems, taskLines, fileTasks>>

vars == <<path, exists, text, activeView, changed, registered, scanning,
          vaultLoaded, initialized, activeFile, fileStates, changeDebouncers,
          handlers, opens, instanceIndex, taskIndex, nextId, events,
          lastEvent, lastDispatch, parserVars>>

hostVars == <<path, exists, text, activeView, changed>>
storeVars == <<instanceIndex, taskIndex, nextId>>
initVars == <<registered, scanning, vaultLoaded, initialized>>

\* ------------------------------------------------- TaskFileManager, hashing
ignorePath(p) == p \in IgnoredPaths

\* The instance index parsed from the document's current text, keyed by the
\* file's current path.
LiveIndex(f) == Slice(path[f], text[f])

\* The instances of one path in the store's instance index.
FilterIndexByPath(p, idx) == Slice(p, idx[p])

\* The fingerprint of a set of task-location records.
HashFileTaskState(s) ==
    {<<s.path, l, s.lines[l]>> : l \in {k \in Lines : s.lines[k] # NoTask}}

GetFileStateHash(p) == fileStates[p] # "NONE"

SetFileStateHash(fs, p, status) == [fs EXCEPT ![p] = status]

\* The status test of testAndSetFileStatus: a path with no recorded state
\* counts as CLEAN.
TestFileStatus(p, status) ==
    (IF fileStates[p] = "NONE" THEN "CLEAN" ELSE fileStates[p]) = status

\* The text writeStateToFile leaves in a document: every line the state has an
\* instance for is rewritten from the instance, the other lines are kept.
WriteStateToFile(old, s) ==
    [l \in Lines |-> IF s.lines[l] # NoTask THEN s.lines[l] ELSE old[l]]

\* -------------------------------------------------------------- the store
Uids == 1..MaxUid

IsFresh(old, new, l) == new[l] # NoTask /\ new[l].uid = 0 /\ old[l] = NoTask

FreshCount(old, new) == Cardinality({l \in Lines : IsFresh(old, new, l)})

\* The instances stored for a path when its live instances `new` replace
\* `old`: a line without identifier keeps the identity its location has, or
\* gets the next free one.
AssignIds(old, new, nid) ==
    [l \in Lines |->
        IF new[l] = NoTask THEN NoTask
        ELSE IF new[l].uid # 0 THEN new[l]
        ELSE IF old[l] # NoTask THEN [new[l] EXCEPT !.uid = old[l].uid]
        ELSE [new[l] EXCEPT !.uid =
                 nid + Cardinality({k \in Lines : k < l /\ IsFresh(old, new, k)})]]

InstancesOf(idx, u) ==
    {<<p, l>> \in Paths \X Lines : idx[p][l] # NoTask /\ idx[p][l].uid = u}

\* The identity mapping after the instance index became `idx`: a task with no
\* instance left is removed, a task with an instance in `touched` takes that
\* instance's values, any other task is kept.
Retask(tasks, idx, touched) ==
    [u \in Uids |->
        IF InstancesOf(idx, u) = {} THEN NoTask
        ELSE LET here == {l \in Lines : touched # NoFile /\ <<touched, l>> \in InstancesOf(idx, u)}
                 any == CHOOSE q \in InstancesOf(idx, u) : TRUE
             IN IF here # {}
                   THEN idx[touched][CHOOSE l \in here : \A k \in here : l <= k]
                   ELSE IF tasks[u] # NoTask THEN tasks[u]
                   ELSE idx[any[1]][any[2]]]

\* What the store's reducer makes of each action: <<instanceIndex, taskIndex,
\* nextId>> afterwards.
StoreModify(data) ==
    LET old == instanceIndex[data.path]
        idx == [instanceIndex EXCEPT ![data.path] = AssignIds(old, data.lines, nextId)]
    IN <<idx, Retask(taskIndex, idx, data.path), nextId + FreshCount(old, data.lines)>>

StoreDeleteFile(p) ==
    LET idx == [instanceIndex EXCEPT ![p] = NoLines]
    IN <<idx, Retask(taskIndex, idx, NoFile), nextId>>

\* reindexPath: every location under oldPath moves to newPath, line kept.
StoreRenameFile(oldPath, newPath) ==
    LET idx == [instanceIndex EXCEPT ![newPath] = instanceIndex[oldPath],
                                     ![oldPath] = NoLines]
    IN <<idx, Retask(taskIndex, idx, NoFile), nextId>>

\* The documents processVault reads: every markdown file not ignored.
ScannedFiles == {f \in Files : exists[f] /\ ~ignorePath(path[f])}

FileAt(p) == CHOOSE f \in ScannedFiles : path[f] = p

\* initialize(instances): the index seeded from a full scan.
StoreInitialize ==
    LET scanned == {path[f] : f \in ScannedFiles}
        live(p) == IF p \in scanned THEN text[FileAt(p)] ELSE NoLines
        fresh(p) == FreshCount(NoLines, live(p))
        before(p) == IF p = "A" THEN 0
                     ELSE IF p = "B" THEN fresh("A")
                     ELSE fresh("A") + fresh("B")
        uids == {0} \cup {live(p)[l].uid : p \in Paths, l \in Lines}
        first == 1 + CHOOSE m \in uids : \A u \in uids : u <= m
        idx == [p \in Paths |-> AssignIds(NoLines, live(p), first + before(p))]
    IN <<idx,
         [u \in Uids |-> IF InstancesOf(idx, u) = {} THEN NoTask
                         ELSE LET q == CHOOSE q \in InstancesOf(idx, u) : TRUE
                              IN idx[q[1]][q[2]]],
         first + fresh("A") + fresh("B") + fresh("C")>>

\* ------------------------------------------------------------- TaskParser
\* Text is a sequence of one-character strings.
Markers == {"-", "*"}
LineTerminators == {"\n", "\r"}                  \* what . does not match
WhiteSpace == {" ", "\t"} \cup LineTerminators   \* \s
AlphaNumeric == {"x", "X", "z", "a", "b", "1"}   \* [0-9A-Za-z] of the sample alphabet

Least(S) == CHOOSE m \in S : \A k \in S : m <= k
Greatest(S) == CHOOSE m \in S : \A k \in S : k <= m

\* String.prototype.trim
Trim(s) ==
    LET black == {i \in 1..Len(s) : s[i] \notin WhiteSpace}
    IN IF black = {} THEN <<>> ELSE SubSeq(s, Least(black), Greatest(black))

\* (?:-|\*) \[(?<complete>\s|x)?\] with its marker at i: the position after
\* the "]", or 0 when it does not match there.
AfterStatus(s, i) ==
    IF i + 3 <= Len(s) /\ s[i] \in Markers /\ s[i + 1] = " " /\ s[i + 2] = "["
       THEN IF s[i + 3] = "]" THEN i + 4
            ELSE IF i + 4 <= Len(s) /\ s[i + 3] \in WhiteSpace \cup {"x"} /\ s[i + 4] = "]"
                    THEN i + 5
            ELSE 0
       ELSE 0

\* The group `complete` of a match with its marker at i: "" when the optional
\* group took no part (undefined).
StatusGroup(s, i) == IF s[i + 3] = "]" THEN "" ELSE s[i + 3]

\* \s+ followed by \S, from position k: the position of the \S, or 0.
TaskLineStart(s, k) ==
    LET black == {j \in k..Len(s) : s[j] \notin WhiteSpace}
    IN IF k = 0 \/ black = {} THEN 0
       ELSE IF Least(black) > k THEN Least(black) ELSE 0

\* \S[^\^]* is greedy: from m it runs up to the next caret or the end.
GreedyEnd(s, m) ==
    LET carets == {j \in (m + 1)..Len(s) : s[j] = "^"}
    IN IF carets = {} THEN Len(s) ELSE Least(carets) - 1

\* \^?.*$ without flags, after position e: anything but a line terminator up
\* to the end of the string.
AnyTail(s, e) == \A j \in (e + 1)..Len(s) : s[j] \notin LineTerminators

\* TaskParser.strictPattern with the marker at i (the pattern is not anchored).
StaticMatchAt(s, i) ==
    LET m == TaskLineStart(s, AfterStatus(s, i))
    IN m # 0 /\ AnyTail(s, GreedyEnd(s, m))

\* line.match(TaskParser.strictPattern): the leftmost match and its groups.
TaskParser_strictPattern(line) ==
    LET starts == {i \in 1..Len(line) : StaticMatchAt(line, i)}
        i == Least(starts)
        m == TaskLineStart(line, AfterStatus(line, i))
    IN IF starts = {}
          THEN [matched |-> FALSE, complete |-> "", taskLine |-> <<>>]
          ELSE [matched |-> TRUE, complete |-> StatusGroup(line, i),
                taskLine |-> SubSeq(line, m, GreedyEnd(line, m))]

emptyTask == [kind |-> "task", complete |-> FALSE, name |-> <<>>, id |-> <<>>]
NoMatch == [kind |-> "null", complete |-> FALSE, name |-> <<>>, id |-> <<>>]

parseLine(line) ==
    LET match == TaskParser_strictPattern(line)
    IN IF match.matched
          THEN [emptyTask EXCEPT !.complete = (match.complete = "x"),
                                 !.name = Trim(match.taskLine)]
          ELSE NoMatch

\* contents.split(/\r?\n/g)
RECURSIVE SplitLines(_, _)
SplitLines(s, cur) ==
    IF s = <<>> THEN <<cur>>
    ELSE IF Head(s) = "\n" THEN <<cur>> \o SplitLines(Tail(s), <<>>)
    ELSE IF Head(s) = "\r" /\ Len(s) >= 2 /\ s[2] = "\n"
            THEN <<cur>> \o SplitLines(Tail(Tail(s)), <<>>)
    ELSE SplitLines(Tail(s), Append(cur, Head(s)))

\* parseLinesToRecord: parseLine of every line, keyed by its 0-based number
\* (NoMatch where the record has no key).
parseLinesToRecord(text0) ==
    LET lines == SplitLines(text0, <<>>)
    IN [lineNum \in 0..(Len(lines) - 1) |-> parseLine(lines[lineNum + 1])]

\* contents.split(/(\r|\n)/g): the pattern has a capture group, so every
\* separator is an element of the result too.
RECURSIVE SplitCaptured(_, _)
SplitCaptured(s, cur) ==
    IF s = <<>> THEN <<cur>>
    ELSE IF Head(s) \in LineTerminators
            THEN <<cur, <<Head(s)>>>> \o SplitCaptured(Tail(s), <<>>)
    ELSE SplitCaptured(Tail(s), Append(cur, Head(s)))

\* ^ and $ under the m flag.
AtLineStart(s, i) == i = 1 \/ s[i - 1] \in LineTerminators
AtLineEnd(s, j) == j = Len(s) + 1 \/ s[j] \in LineTerminators

\* The module's strictPattern from a line start b: indentation, marker,
\* status, a body without caret and an optional ` ^id` before the line's end.
StrictMatchAt(s, b) ==
    /\ AtLineStart(s, b)
    /\ \E i \in b..Len(s) :
          /\ \A j \in b..(i - 1) : s[j] \in WhiteSpace
          /\ LET m == TaskLineStart(s, AfterStatus(s, i))
             IN /\ m # 0
                /\ \E e \in m..Len(s) :
                      /\ \A j \in (m + 1)..e : s[j] # "^"
                      /\ \/ AtLineEnd(s, e + 1)
                         \/ \E q \in (e + 3)..Len(s) :
                               /\ s[e + 1] = " "
                               /\ s[e + 2] = "^"
                               /\ \A j \in (e + 3)..q : s[j] \in AlphaNumeric
                               /\ AtLineEnd(s, q + 1)

\* line.match(strictPattern): the pattern has the g flag, so the result is the
\* array of matched substrings, which has no `groups`.
strictPattern(line) ==
    [matched |-> \E b \in 1..Len(line) : StrictMatchAt(line, b),
     groups |-> "undefined"]

Returned(ret) == [kind |-> "returned", ret |-> ret]
Thrown(error) == [kind |-> error, ret |-> {}]
NotParsed == [kind |-> "not parsed", ret |-> {}]

\* The loop of parseFileContents over cacheTasks: an item past lines.length
\* throws the Error; destructuring the groups of a match throws a TypeError.
RECURSIVE ParseItems(_, _, _)
ParseItems(lines, cacheTasks, ret) ==
    IF cacheTasks = <<>> THEN Returned(ret)
    ELSE LET lineNum == Head(cacheTasks)
         IN IF lineNum >= Len(lines) THEN Thrown("Error")
            ELSE LET match == strictPattern(lines[lineNum + 1])
                 IN IF match.matched
                       THEN IF match.groups = "undefined" THEN Thrown("TypeError")
                            ELSE ParseItems(lines, Tail(cacheTasks), ret \cup {lineNum})
                       ELSE ParseItems(lines, Tail(cacheTasks), ret)

parseFileContents(text0, cacheTasks) ==
    ParseItems(SplitCaptured(text0, <<>>), cacheTasks, {})

\* ------------------------------------------------------ the parser's inputs
MaxDocLines == 2               \* lines of a sample document of several lines
MaxItems == 2                  \* task list items the host reports
MaxLineNum == 3                \* largest line number the host reports

Indents == {<<>>, <<" ">>, <<"a", " ">>}
Statuses == {<<>>, <<" ">>, <<"x">>, <<"X">>, <<"z">>}
Gaps == {<<" ">>, <<>>}
Bodies == {<<"a">>, <<"a", " ", "b">>, <<"a", "^", "b">>}
Tails == {<<>>, <<" ">>, <<" ", "^", "a", "1">>, <<"^", "a", "1">>}

\* One-line documents: every combination of the pieces of a task line.
SampleLines ==
    {<<>>, <<"a">>} \cup
    {i \o <<mk, " ", "[">> \o st \o <<"]">> \o g \o b \o t :
        i \in Indents, mk \in Markers, st \in Statuses, g \in Gaps,
        b \in Bodies, t \in Tails}

ShortLines == {<<"a">>, <<"-", " ", "[", "x", "]", " ", "a">>,
               <<"-", " ", "[", " ", "]", " ", "a", " ", "^", "1">>}
LineEnds == {<<"\n">>, <<"\r", "\n">>}

\* Documents of n short lines with one newline convention.
RECURSIVE Joined(_, _)
Joined(n, eol) ==
    IF n = 1 THEN ShortLines
    ELSE {d \o eol \o l : d \in Joined(n - 1, eol), l \in ShortLines}

SampleDocuments ==
    SampleLines \cup
    UNION {Joined(n, eol) : n \in 2..MaxDocLines, eol \in LineEnds}

RECURSIVE ItemLists(_)
ItemLists(n) ==
    IF n = 0 THEN {<<>>}
    ELSE ItemLists(n - 1) \cup
         {Append(is, l) : is \in {js \in ItemLists(n - 1) : Len(js) = n - 1},
                          l \in 0..MaxLineNum}

ParserIdle ==
    /\ contents = <<>>
    /\ listItems = <<>>
    /\ taskLines = <<>>
    /\ fileTasks = NotParsed

\* ----------------------------------------------------------------- actions
NoAction == [type |-> "none", path |-> NoFile, newPath |-> NoFile,
             lines |-> NoLines, seen |-> NoLines, origin |-> "none",
             focused |-> FALSE]
\* `seen`, `origin` and `focused` are history: the state the last change
\* handler of the burst read, what caused the notification, and whether the
\* document was the active view when the notification was handled.
ModifyAction(data, origin, focused) ==
    [type |-> "MODIFY_FILE_TASKS", path |-> data.path, newPath |-> NoFile,
     lines |-> data.lines, seen |-> data.lines, origin |-> origin,
     focused |-> focused]
DeleteAction(p) ==
    [NoAction EXCEPT !.type = "DELETE_FILE", !.path = p, !.origin = "host"]
RenameAction(oldPath, newPath) ==
    [NoAction EXCEPT !.type = "RENAME_FILE", !.path = oldPath,
                     !.newPath = newPath, !.origin = "host"]

\* `origin` is what caused a 'changed' event: a user's edit or the engine's write.
Event(kind, p, outcome) ==
    [kind |-> kind, path |-> p, outcome |-> outcome, origin |-> "none"]
Changed(f, outcome) ==
    [kind |-> "changed", path |-> path[f], outcome |-> outcome,
     origin |-> Head(changed[f])]
Quiet == Event("none", NoFile, "none")

PluginInit ==
    /\ path = [f \in Files |-> IF f = "f1" THEN "A" ELSE "B"]
    /\ exists = [f \in Files |-> TRUE]
    /\ text = [f \in Files |->
                 [l \in Lines |-> IF l = 0 THEN Task(1, FALSE, "a") ELSE NoTask]]
    /\ activeView = NoFile
    /\ changed = [f \in Files |-> <<>>]
    /\ registered = FALSE
    /\ scanning = {}
    /\ vaultLoaded = FALSE
    /\ initialized = FALSE
    /\ activeFile = NoFile
    /\ fileStates = [p \in Paths |-> "NONE"]
    /\ changeDebouncers = [p \in Paths |-> NoAction]
    /\ handlers = <<>>
    /\ opens = {}
    /\ instanceIndex = [p \in Paths |-> NoLines]
    /\ taskIndex = [u \in Uids |-> NoTask]
    /\ nextId = 1
    /\ events = 0
    /\ lastEvent = Quiet
    /\ lastDispatch = NoAction

Init ==
    /\ PluginInit
    /\ ParserIdle

\* triggerFileCacheUpdate(action): the store reduces the action at once.
Dispatch(action, result) ==
    /\ result[3] <= MaxUid + 1
    /\ instanceIndex' = result[1]
    /\ taskIndex' = result[2]
    /\ nextId' = result[3]
    /\ lastDispatch' = action

NoDispatch == /\ UNCHANGED storeVars
              /\ lastDispatch' = NoAction

\* onload: the layout-ready callback creates the store, registers the events
\* and starts processVault.
LayoutReady ==
    /\ ~registered
    /\ ~initialized
    /\ registered' = TRUE
    /\ scanning' = IF vaultLoaded THEN scanning ELSE scanning \cup {"layout-ready"}
    /\ lastEvent' = Quiet
    /\ NoDispatch
    /\ UNCHANGED <<parserVars, hostVars, vaultLoaded, initialized, activeFile, fileStates,
                   changeDebouncers, handlers, opens, events>>

\* The debounced 'resolve' handler: while the vault is not loaded it calls
\* processVault as well (once the vault is loaded it only unregisters itself).
Resolve ==
    /\ registered
    /\ ~vaultLoaded
    /\ "resolve" \notin scanning
    /\ events < MaxEvents
    /\ events' = events + 1
    /\ scanning' = scanning \cup {"resolve"}
    /\ lastEvent' = Event("resolve", NoFile, "scanning")
    /\ NoDispatch
    /\ UNCHANGED <<parserVars, hostVars, registered, vaultLoaded, initialized,
                   activeFile, fileStates, changeDebouncers, handlers, opens>>

\* A caller's processVault resumes after its reads: the store is seeded and
\* the caller goes on (the vaultLoaded test was made before the reads).
ProcessVaultDone(caller) ==
    /\ caller \in scanning
    /\ scanning' = scanning \ {caller}
    /\ vaultLoaded' = TRUE
    /\ initialized' = (initialized \/ caller = "layout-ready")
    /\ lastEvent' = Quiet
    /\ Dispatch([NoAction EXCEPT !.type = "INITIALIZE"], StoreInitialize)
    /\ UNCHANGED <<parserVars, hostVars, registered, activeFile, fileStates,
                   changeDebouncers, handlers, opens, events>>

\* ---------------------------------------------------------------- file-open
\* The host focuses another document (or none) and fires 'file-open'; the
\* handler runs up to its await of readMarkdownFile.
FileOpen(v) ==
    /\ registered
    /\ v # activeView
    /\ v # NoFile => exists[v]
    /\ events < MaxEvents
    /\ events' = events + 1
    /\ activeView' = v
    /\ IF v = NoFile \/ ignorePath(path[v])
          THEN /\ UNCHANGED <<activeFile, opens>>
               /\ lastEvent' = Event("file-open", NoFile, "ignored")
          ELSE /\ opens = {}
               /\ activeFile' = v
               /\ opens' = {[file |-> v,
                             stored |-> FilterIndexByPath(path[v], instanceIndex)]}
               /\ lastEvent' = Event("file-open", path[v], "reading")
    /\ NoDispatch
    /\ UNCHANGED <<parserVars, path, exists, text, changed, initVars, fileStates,
                   changeDebouncers, handlers>>

Pending == Len(changed["f1"]) + Len(changed["f2"])

\* How the host's I/O of one handler call goes; a failure is a host input.
IOResults == {"ok", "read fails", "write fails"}

Failing(io) ==
    IF io = "ok" THEN UNCHANGED events
    ELSE events < MaxEvents /\ events' = events + 1

\* A handler that goes on with what it has when the read is rejected.
ReadFailureIgnored(f, io) == TRUE

\* await readMarkdownFile(file) / await getInstanceIndexFromFile(file): the
\* call goes on only if the read is not rejected, which it is for a document
\* that has left the vault.
ReadSucceeds(f, io) == exists[f] /\ io # "read fails"

\* The file-open handler resumes with the document's instances: equal hashes
\* mark the path CLEAN, different ones mark it DIRTY and write the stored
\* state to the document, which the host reports with a 'changed' event.
FileOpenResume(h, io) ==
    LET f == h.file
        index == LiveIndex(f)
        storedIndex == h.stored
        toWrite == IF storedIndex.path = path[f] THEN storedIndex
                   ELSE Slice(path[f], NoLines)
    IN /\ h \in opens
       /\ opens' = opens \ {h}
       /\ Failing(io)
       /\ IF ~ReadSucceeds(f, io)
             THEN /\ io # "write fails"
                  /\ lastEvent' = Event("file-open", path[f], "failed")
                  /\ UNCHANGED <<fileStates, text, changed>>
             ELSE IF HashFileTaskState(storedIndex) # HashFileTaskState(index)
             THEN /\ fileStates' = SetFileStateHash(fileStates, path[f], "DIRTY")
                  /\ IF io = "write fails"
                        THEN /\ lastEvent' = Event("file-open", path[f], "write failed")
                             /\ UNCHANGED <<text, changed>>
                        ELSE /\ Pending < MaxPending
                             /\ text' = [text EXCEPT ![f] = WriteStateToFile(text[f], toWrite)]
                             /\ changed' = [changed EXCEPT ![f] = Append(@, "engine")]
                             /\ lastEvent' = Event("file-open", path[f], "written")
             ELSE /\ io # "write fails"
                  /\ fileStates' = SetFileStateHash(fileStates, path[f], "CLEAN")
                  /\ lastEvent' = Event("file-open", path[f], "clean")
                  /\ UNCHANGED <<text, changed>>
       /\ NoDispatch
       /\ UNCHANGED <<parserVars, path, exists, activeView, initVars, activeFile,
                      changeDebouncers, handlers>>

\* ------------------------------------------------------------------ changed
\* What the user makes of a line: a task is toggled or erased, a new task
\* without identifier is typed on an empty line.
Edited(old, how) ==
    IF how = "toggle" THEN [old EXCEPT !.complete = ~old.complete]
    ELSE IF how = "type" THEN Task(0, FALSE, "b")
    ELSE NoTask

\* The user edits a line of the focused document; the host reports it.
UserEdit(l, how) ==
    /\ vaultLoaded
    /\ activeView # NoFile
    /\ exists[activeView]
    /\ events < MaxEvents
    /\ Pending < MaxPending
    /\ (how = "type") = (text[activeView][l] = NoTask)
    /\ text' = [text EXCEPT ![activeView][l] = Edited(@, how)]
    /\ changed' = [changed EXCEPT ![activeView] = Append(@, "user")]
    /\ events' = events + 1
    /\ lastEvent' = Quiet
    /\ NoDispatch
    /\ UNCHANGED <<parserVars, path, exists, activeView, initVars, activeFile, fileStates,
                   changeDebouncers, handlers, opens>>

\* testAndSetFileStatus(path, CLEAN) in handleCacheChanged.
TestAndSetClean(p) == SetFileStateHash(fileStates, p, "CLEAN")

\* A cursor read that tolerates a missing view.
CursorNeverThrows == FALSE

\* getActiveViewOfType(MarkdownView).editor.getCursor() throws a TypeError when
\* there is no active markdown view: the call ends there.
CursorThrows == activeView = NoFile

\* handleCacheChanged up to its await of getInstanceIndexFromFile.
HandleCacheChanged(f, line) ==
    /\ registered
    /\ changed[f] # <<>>
    /\ Len(handlers) < MaxInFlight
    /\ changed' = [changed EXCEPT ![f] = Tail(@)]
    /\ IF activeView # NoFile /\ path[activeView] # path[f]
          THEN /\ lastEvent' = Changed(f, "not-active-view")
               /\ UNCHANGED <<fileStates, handlers>>
          ELSE IF f # activeFile \/ ignorePath(path[f])
          THEN /\ lastEvent' = Changed(f, "not-active-file")
               /\ UNCHANGED <<fileStates, handlers>>
          ELSE IF ~TestFileStatus(path[f], "CLEAN")
          THEN /\ fileStates' = TestAndSetClean(path[f])
               /\ lastEvent' = Changed(f, "swallowed")
               /\ UNCHANGED handlers
          ELSE IF CursorThrows
          THEN /\ fileStates' = TestAndSetClean(path[f])
               /\ lastEvent' = Changed(f, "threw")
               /\ UNCHANGED handlers
          ELSE /\ fileStates' = TestAndSetClean(path[f])
               /\ handlers' = Append(handlers,
                     [file |-> f, line |-> line, origin |-> Head(changed[f]),
                      focused |-> activeView = f])
               /\ lastEvent' = Changed(f, "reading")
    /\ NoDispatch
    /\ UNCHANGED <<parserVars, path, exists, text, activeView, initVars, activeFile,
                   changeDebouncers, opens, events>>

Remove(seq, i) == [j \in 1..(Len(seq) - 1) |-> IF j < i THEN seq[j] ELSE seq[j + 1]]

\* fileInstanceIndex once the cursor line's instance without identifier is
\* deleted from it.
DropCursorLine(data, p, line) ==
    IF data.path = p /\ line \in Lines /\ data.lines[line] # NoTask /\ data.lines[line].uid = 0
       THEN [data EXCEPT !.lines[line] = NoTask]
       ELSE data

\* A single debouncer shared by every path: a call replaces whatever any
\* path had pending.
ScheduleShared(debouncers, p, action) ==
    [q \in Paths |-> IF q = p THEN action ELSE NoAction]

\* this.changeDebouncers[file.path](action): the path's own debouncer is
\* created on first use and (re)started with the action as its argument.
Schedule(debouncers, p, action) == [debouncers EXCEPT ![p] = action]

\* handleCacheChanged after its await: the document is read, and a state that
\* differs from the store's is handed to the path's debouncer. The read of a
\* deleted document fails and ends the call.
HandlerResume(i, io) ==
    /\ i \in 1..Len(handlers)
    /\ io # "write fails"
    /\ Failing(io)
    /\ lastEvent' = IF exists[handlers[i].file] /\ io = "ok" THEN Quiet
                    ELSE Event("read", path[handlers[i].file], "failed")
    /\ LET h == handlers[i]
           p == path[h.file]
           fileInstanceIndex == DropCursorLine(LiveIndex(h.file), p, h.line)
           existingFileInstanceIndex == FilterIndexByPath(p, instanceIndex)
       IN IF ~ReadSucceeds(h.file, io)
             THEN UNCHANGED changeDebouncers
          ELSE IF HashFileTaskState(fileInstanceIndex) # HashFileTaskState(existingFileInstanceIndex)
             THEN changeDebouncers' = Schedule(changeDebouncers, p,
                      ModifyAction(fileInstanceIndex, h.origin, h.focused))
          ELSE IF changeDebouncers[p] # NoAction
             THEN changeDebouncers' = [changeDebouncers EXCEPT ![p].seen =
                      fileInstanceIndex.lines]
          ELSE UNCHANGED changeDebouncers
    /\ handlers' = Remove(handlers, i)
    /\ NoDispatch
    /\ UNCHANGED <<parserVars, hostVars, initVars, activeFile, fileStates, opens>>

\* A path's debouncer fires after its settle window: the last action given to
\* it goes to triggerFileCacheUpdate.
DebounceFire(p) ==
    /\ changeDebouncers[p] # NoAction
    /\ changeDebouncers' = [changeDebouncers EXCEPT ![p] = NoAction]
    /\ Dispatch(changeDebouncers[p],
                StoreModify(Slice(changeDebouncers[p].path, changeDebouncers[p].lines)))
    /\ lastEvent' = Quiet
    /\ UNCHANGED <<parserVars, hostVars, initVars, activeFile, fileStates, handlers, opens,
                   events>>

\* ------------------------------------------------------------ delete, rename
\* A guard that also waits for the path's settle window: nothing is dispatched
\* while the path's debouncer holds an action.
DispatchWhenSettled(p) == GetFileStateHash(p) /\ changeDebouncers[p] = NoAction

\* if ( this.taskFileManager.getFileStateHash( path ) ): the only condition of
\* the delete and rename handlers' call of triggerFileCacheUpdate.
DispatchNow(p) == GetFileStateHash(p)

HandleFileDeleted(f) ==
    /\ vaultLoaded
    /\ exists[f]
    /\ events < MaxEvents
    /\ events' = events + 1
    /\ exists' = [exists EXCEPT ![f] = FALSE]
    /\ text' = [text EXCEPT ![f] = NoLines]
    /\ changed' = [changed EXCEPT ![f] = <<>>]
    /\ activeView' = IF activeView = f THEN NoFile ELSE activeView
    /\ IF DispatchNow(path[f])
          THEN /\ Dispatch(DeleteAction(path[f]), StoreDeleteFile(path[f]))
               /\ lastEvent' = Event("delete", path[f], "dispatched")
          ELSE /\ NoDispatch
               /\ lastEvent' = Event("delete", path[f], "no-state")
    /\ UNCHANGED <<parserVars, path, initVars, activeFile, fileStates, changeDebouncers,
                   handlers, opens>>

HandleFileRenamed(f, newPath) ==
    /\ vaultLoaded
    /\ exists[f]
    /\ \A g \in Files : exists[g] => path[g] # newPath
    /\ events < MaxEvents
    /\ events' = events + 1
    /\ path' = [path EXCEPT ![f] = newPath]
    /\ IF DispatchNow(path[f])
          THEN /\ Dispatch(RenameAction(path[f], newPath), StoreRenameFile(path[f], newPath))
               /\ lastEvent' = Event("rename", path[f], "dispatched")
          ELSE /\ NoDispatch
               /\ lastEvent' = Event("rename", path[f], "no-state")
    /\ UNCHANGED <<parserVars, exists, text, activeView, changed, initVars, activeFile,
                   fileStates, changeDebouncers, handlers, opens>>

Next ==
    \/ LayoutReady
    \/ Resolve
    \/ \E caller \in {"layout-ready", "resolve"} : ProcessVaultDone(caller)
    \/ \E v \in Files \cup {NoFile} : FileOpen(v)
    \/ \E h \in opens, io \in IOResults : FileOpenResume(h, io)
    \/ \E l \in Lines, how \in {"toggle", "type", "erase"} : UserEdit(l, how)
    \/ \E f \in Files, line \in CursorLines : HandleCacheChanged(f, line)
    \/ \E i \in 1..MaxInFlight, io \in IOResults : HandlerResume(i, io)
    \/ \E p \in Paths : DebounceFire(p)
    \/ \E f \in Files : HandleFileDeleted(f)
    \/ \E f \in Files, p \in Paths : HandleFileRenamed(f, p)

Spec == Init /\ [][Next]_vars

\* ------------------------------------------------------- the parser alone
pluginVars == <<hostVars, initVars, activeFile, fileStates, changeDebouncers,
                handlers, opens, storeVars, events, lastEvent, lastDispatch>>

\* A document and the task list items the host's cache reports for it; the
\* plugin is as constructed and stays so.
ParserInit ==
    /\ PluginInit
    /\ contents \in SampleDocuments
    /\ listItems \in ItemLists(MaxItems)
    /\ taskLines = <<>>
    /\ fileTasks = NotParsed

ParseLines ==
    /\ taskLines = <<>>
    /\ taskLines' = parseLinesToRecord(contents)
    /\ UNCHANGED <<pluginVars, contents, listItems, fileTasks>>

ParseFileContents ==
    /\ fileTasks = NotParsed
    /\ fileTasks' = parseFileContents(contents, listItems)
    /\ UNCHANGED <<pluginVars, contents, listItems, taskLines>>

ParserNext ==
    \/ ParseLines
    \/ ParseFileContents

ParserSpec == ParserInit /\ [][ParserNext]_vars

\* ------------------------------------------------------------------ claims
\* C1: the 'changed' event the host sends for a write of the file-open
\* handler never hands a MODIFY_FILE_TASKS action to a debouncer.
C1_SelfWriteNeverReconciles ==
    \A p \in Paths : changeDebouncers[p].origin # "engine"

\* C2: once the 'changed' event of an engine write has been delivered, the
\* path is no longer DIRTY, whichever way the change handler returned.
C2_DeliveryClearsDirty ==
    (lastEvent.kind = "changed" /\ lastEvent.origin = "engine")
        => fileStates[lastEvent.path] # "DIRTY"

\* C3: the MODIFY_FILE_TASKS action a debouncer dispatches carries the state
\* read by the last change handler of its burst, the latest observed text.
C3_DispatchCarriesLatestText ==
    lastDispatch.type = "MODIFY_FILE_TASKS" => lastDispatch.lines = lastDispatch.seen

C5_DeletionCascades ==
    lastEvent.kind = "delete" =>
        /\ instanceIndex[lastEvent.path] = NoLines
        /\ \A u \in Uids : InstancesOf(instanceIndex, u) = {} => taskIndex[u] = NoTask

\* C6: the step that handles a rename moves every instance of the old path to
\* the same line of the new path, unchanged, and leaves none under the old path.
C6_RenamePreservesIdentity ==
    [][\A f \in Files :
          path'[f] # path[f] =>
              /\ instanceIndex'[path'[f]] = instanceIndex[path[f]]
              /\ instanceIndex'[path[f]] = NoLines]_vars

C9_IdempotentReconcile ==
    /\ lastEvent.kind = "changed" =>
          \A f \in Files :
              (/\ exists[f]
               /\ path[f] = lastEvent.path
               /\ HashFileTaskState(LiveIndex(f)) =
                      HashFileTaskState(FilterIndexByPath(path[f], instanceIndex)))
              => (lastDispatch = NoAction /\ fileStates[path[f]] # "DIRTY")
    /\ (lastEvent.kind = "file-open" /\ lastEvent.outcome = "clean") =>
          (lastDispatch = NoAction /\ fileStates[lastEvent.path] = "CLEAN")

\* C10: the file-open handler never replaces a document line that holds a task
\* with an identity by another value.
C10_LiveDocumentWins ==
    [][lastEvent'.kind = "file-open" =>
          \A f \in Files : \A l \in Lines :
              (text[f][l] # NoTask /\ text[f][l].uid \in Uids) =>
                  text'[f][l] = text[f][l]]_vars

\* ------------------------------------------------------ claims on the parser
\* The lines parseLinesToRecord numbered, once it has run.
ParsedLines == SplitLines(contents, <<>>)

\* A line `marker [c] body` whose marker is its first character and whose body
\* starts right after one space.
PlainTaskLine(s) ==
    /\ Len(s) >= 7
    /\ s[1] \in Markers /\ s[2] = " " /\ s[3] = "[" /\ s[5] = "]" /\ s[6] = " "
    /\ s[7] \notin WhiteSpace \cup {"^"}

\* The position of the caret of a trailing ` ^identifier` token, the line's
\* only caret; 0 when the line does not end with such a token.
IdCaret(s) ==
    LET carets == {k \in 1..Len(s) : s[k] = "^"}
        k == Least(carets)
    IN IF /\ Cardinality(carets) = 1
          /\ k > 1 /\ k < Len(s)
          /\ s[k - 1] = " "
          /\ \A j \in (k + 1)..Len(s) : s[j] \in AlphaNumeric
          THEN k ELSE 0

\* C11: parsing a line gives a task record or no match and never throws, in
\* parseLine and in the per-line match of parseFileContents alike.
C11_ParserTotal ==
    /\ \A n \in DOMAIN taskLines : taskLines[n].kind \in {"task", "null"}
    /\ fileTasks.kind # "TypeError"

\* C12: a task line that ends with ` ^identifier` parses to the trimmed text
\* between the status token and that token, and carries the identifier as
\* written; without the token the text is the trimmed rest and there is no
\* identifier.
C12_TextAndIdentifier ==
    \A n \in DOMAIN taskLines :
        LET s == ParsedLines[n + 1]
            k == IdCaret(s)
        IN (PlainTaskLine(s) /\ s[4] \in {" ", "x"}) =>
              /\ k # 0 =>
                    /\ taskLines[n].kind = "task"
                    /\ taskLines[n].name = Trim(SubSeq(s, 7, k - 1))
                    /\ taskLines[n].id = SubSeq(s, k + 1, Len(s))
              /\ (\A j \in 1..Len(s) : s[j] # "^") =>
                    /\ taskLines[n].kind = "task"
                    /\ taskLines[n].name = Trim(SubSeq(s, 7, Len(s)))
                    /\ taskLines[n].id = <<>>

\* C13: a task line is complete exactly when its bracket holds x or X,
\* incomplete when it holds a blank, and no match for any other content.
C13_StatusToken ==
    \A n \in DOMAIN taskLines :
        LET s == ParsedLines[n + 1]
        IN PlainTaskLine(s) =>
              /\ s[4] \in {"x", "X"} =>
                    (taskLines[n].kind = "task" /\ taskLines[n].complete)
              /\ s[4] = " " =>
                    (taskLines[n].kind = "task" /\ ~taskLines[n].complete)
              /\ s[4] \notin {"x", "X", " "} => taskLines[n].kind = "null"

\* C14: a line that parses to a task has its list marker as its first
\* character after the indentation, and no caret other than the one of a
\* trailing identifier token.
C14_StrictMatching ==
    \A n \in DOMAIN taskLines :
        LET s == ParsedLines[n + 1]
            black == {j \in 1..Len(s) : s[j] \notin WhiteSpace}
        IN taskLines[n].kind = "task" =>
              /\ s[Least(black)] \in Markers
              /\ (\A j \in 1..Len(s) : s[j] # "^") \/ IdCaret(s) # 0

\* C15: when parseFileContents ends without a TypeError, it has thrown its
\* Error exactly if some reported task item has a line number that is not
\* below the number of lines of the document.
C15_StructuralInconsistency ==
    fileTasks.kind \in {"returned", "Error"} =>
        (fileTasks.kind = "Error" <=>
            \E i \in 1..Len(listItems) : listItems[i] >= Len(ParsedLines))

\* --------------------------------------------------- claims on the pipeline
\* C16: when a read or a write of a document fails at the host boundary in
\* the change handler or in the file-open handler, the task index is not
\* modified, nothing is dispatched or scheduled and no document changes; a
\* failed read leaves every recorded status as it was, a failed write leaves
\* only the DIRTY mark the file-open handler set before writing (a mark that
\* handler never consults), and the change handler has marked its path CLEAN
\* before it reads, so the same notification delivered again is taken up.
ResumeStep ==
    \/ opens' # opens /\ opens' \subseteq opens
    \/ Len(handlers') < Len(handlers)

IOFailed == ResumeStep /\ (events' # events \/ lastEvent'.outcome = "failed")

C16_IOFailureRetrySafe ==
    [][
        /\ IOFailed =>
              /\ UNCHANGED <<storeVars, changeDebouncers, text, changed>>
              /\ lastDispatch' = NoAction
              /\ \A q \in Paths :
                    fileStates'[q] # fileStates[q] =>
                        /\ lastEvent' = Event("file-open", q, "write failed")
                        /\ fileStates'[q] = "DIRTY"
        /\ Len(handlers') > Len(handlers) =>
              fileStates'[path[handlers'[Len(handlers')].file]] = "CLEAN"
    ]_vars

C16_Witness ==
    /\ lastEvent = Event("read", "A", "failed")
    /\ exists["f1"] /\ path["f1"] = "A"
    /\ fileStates["A"] = "CLEAN"
    /\ vaultLoaded

\* C17: no two change handlers of one document are suspended at their reads
\* at the same time.
C17_OneReconciliationPerPath ==
    \A i, j \in 1..Len(handlers) :
        i # j => handlers[i].file # handlers[j].file

\* C18: taskStore.initialize is only called while the vault is not yet
\* loaded, so at most once: the first call sets vaultLoaded.
C18_InitializeOnce ==
    [][lastDispatch'.type = "INITIALIZE" => ~vaultLoaded]_vars

\* C19: a MODIFY_FILE_TASKS action is only dispatched for a path that a
\* document of the vault has: none for a path whose document was deleted or
\* renamed away.
C19_NoModifyAfterDeleteOrRename ==
    lastDispatch.type = "MODIFY_FILE_TASKS" =>
        \E f \in Files : exists[f] /\ path[f] = lastDispatch.path

\* C20: the file-open handler writes to a document only after the initial
\* scan has seeded the index.
C20_NoWriteBeforeInitialize ==
    (lastEvent.kind = "file-open" /\ lastEvent.outcome = "written") => vaultLoaded

\* C21: when parseFileContents returns, it has stored a record under the line
\* number n of a reported item exactly when the n-th line of the document, as
\* parseLines and parseLinesToRecord number the lines, is a task line of the
\* strict pattern: the line it reads for item n is line n of the document.
C21_LineAlignment ==
    fileTasks.kind = "returned" =>
        \A i \in 1..Len(listItems) :
            LET n == listItems[i]
            IN n < Len(ParsedLines) =>
                  (n \in fileTasks.ret <=> strictPattern(ParsedLines[n + 1]).matched)

====
